---- MODULE Spec2Model ----
(***************************************************************************)
(* Model of wimpod (src/main.rs): a one-shot command line client that      *)
(* issues one blocking HTTP call against a namespace endpoint and renders  *)
(* the outcome in the selected PrintFormat.                                *)
(*                                                                         *)
(* Environment: the server's answer (transport failure, or a status and a  *)
(* body), how many writes the output stream (stdout) accepts before the    *)
(* downstream consumer closes it, and whether the error stream (stderr)    *)
(* accepts writes.  Argument parsing mechanics (clap's own usage/help      *)
(* exits) are outside the model: ParseArgs is a successful parse.          *)
(***************************************************************************)
EXTENDS Integers, Sequences, FiniteSets, TLC

(* ------------------------------ bounds ------------------------------- *)
\* longest top_queries sequence the server returns
MaxQueries == 2
\* largest finite number of writes stdout accepts before it is closed
MaxAccept == 7

(* ------------------------- program constants ------------------------- *)
\* exit status of a Rust process that panics
PanicExit == 101
\* argument of std::process::exit in print_server_error
ErrorExitArg == 0 - 1
\* argument of std::process::exit in write_str
BrokenPipeExitArg == 0

\* the exit status is the low byte of the argument of exit
ExitStatus(code) == code % 256

\* stdout accepts every write
Unlimited == 0 - 1
\* the process has not terminated yet
NotExited == 0 - 1

(* ------------------------------ types -------------------------------- *)
PrintFormat == {"Normal", "Json"}

Commands ==
    [kind : {"Stats"}, include_top_queries : BOOLEAN]
    \cup [kind : {"CreateNamespace", "DeleteNamespace", "Fork"},
          include_top_queries : {FALSE}]

Args == [format : PrintFormat, command : Commands]

NoArgs == [format |-> "Normal",
           command |-> [kind |-> "None", include_top_queries |-> FALSE]]

TopQuery ==
    { [rows_written |-> 3, rows_read |-> 5, query |-> "SELECT"],
      [rows_written |-> 8, rows_read |-> 0, query |-> "INSERT"] }

RECURSIVE SeqsUpTo(_, _)
SeqsUpTo(S, n) ==
    IF n = 0 THEN { <<>> }
    ELSE LET shorter == SeqsUpTo(S, n - 1)
         IN  shorter \cup { Append(s, x) : s \in shorter, x \in S }

\* sample values of the five u64 counters, in field order
Counters == { <<10, 2, 4096, 1, 7>>, <<0, 0, 0, 0, 0>> }

NamespaceStats ==
    { [rows_read_count |-> c[1], rows_written_count |-> c[2],
       storage_bytes_used |-> c[3], write_requests_delegated |-> c[4],
       replication_index |-> c[5], top_queries |-> q]
      : c \in Counters, q \in SeqsUpTo(TopQuery, MaxQueries) }

NoStats == [rows_read_count |-> 0, rows_written_count |-> 0,
            storage_bytes_used |-> 0, write_requests_delegated |-> 0,
            replication_index |-> 0, top_queries |-> <<>>]

Config ==
    { [block_reads |-> FALSE, block_writes |-> FALSE,
       block_reason |-> "null", max_db_size |-> "null"],
      [block_reads |-> TRUE, block_writes |-> TRUE,
       block_reason |-> "maintenance", max_db_size |-> "500.0 PB"] }

NoConfig == [block_reads |-> FALSE, block_writes |-> FALSE,
             block_reason |-> "null", max_db_size |-> "null"]

ErrorTexts == {"namespace already exists", "namespace not found"}

ServerError == [error : ErrorTexts]

(* ------------------------- the server's answer ----------------------- *)
\* A response body is: a JSON object with an "error" string, a JSON
\* NamespaceStats object, a JSON Config object, some other JSON value
\* (here {}), or bytes that are not JSON at all.
Bodies ==
    { [kind |-> "error", error |-> t, stats |-> NoStats, config |-> NoConfig]
        : t \in ErrorTexts }
    \cup { [kind |-> "stats", error |-> "", stats |-> s, config |-> NoConfig]
        : s \in NamespaceStats }
    \cup { [kind |-> "config", error |-> "", stats |-> NoStats, config |-> c]
        : c \in Config }
    \cup { [kind |-> k, error |-> "", stats |-> NoStats, config |-> NoConfig]
        : k \in {"empty_object", "not_json"} }

NoBody == [kind |-> "not_json", error |-> "", stats |-> NoStats,
           config |-> NoConfig]

Statuses == {200, 204, 301, 404, 500}

Responses ==
    { [transport |-> "failed", status |-> 0, body |-> NoBody] }
    \cup [transport : {"ok"}, status : Statuses, body : Bodies]

NoResponse == [transport |-> "none", status |-> 0, body |-> NoBody]

\* reqwest StatusCode::is_success
is_success(status) == status >= 200 /\ status <= 299

\* res.json::<ServerError>(): needs a JSON object with a string field "error"
JsonServerError(body) ==
    IF body.kind = "error"
    THEN [ok |-> TRUE, error |-> body.error]
    ELSE [ok |-> FALSE, error |-> ""]

\* res.json::<NamespaceStats>(): needs all six fields of NamespaceStats
JsonNamespaceStats(body) ==
    IF body.kind = "stats"
    THEN [ok |-> TRUE, stats |-> body.stats]
    ELSE [ok |-> FALSE, stats |-> NoStats]

\* res.json::<Config>(): needs block_reads and block_writes
JsonConfig(body) ==
    IF body.kind = "config"
    THEN [ok |-> TRUE, config |-> body.config]
    ELSE [ok |-> FALSE, config |-> NoConfig]

\* res.json::<serde_json::Value>(): any JSON text parses
JsonValue(body) ==
    IF body.kind = "not_json" THEN <<"Err">> ELSE <<"Ok", body.kind>>

(* --------------------- the process and its streams ------------------- *)
\* one emitted message: how it was rendered (fmt), what it is (tag) and
\* the values interpolated into it (val)
TextLine(tag, val)  == [fmt |-> "text", tag |-> tag, val |-> val]
JsonText(tag, val)  == [fmt |-> "json", tag |-> tag, val |-> val]
DebugLine(tag, val) == [fmt |-> "debug", tag |-> tag, val |-> val]
PanicLine(msg)      == [fmt |-> "panic", tag |-> msg, val |-> <<>>]

VARIABLES
    pc,        \* "start", "dispatch", "returned", "exited" (main);
               \* "client", "client_done" (a Server method called alone)
    args,      \* the parsed Args
    op,        \* the Server method that was called
    response,  \* the server's answer to the request
    result,    \* what the Server method returned
    proc       \* the process's effects: streams, requests, termination

vars == <<pc, args, op, response, result, proc>>

NoResult == [tag |-> "none", error |-> "", stats |-> NoStats,
             config |-> NoConfig]
Ok          == [NoResult EXCEPT !.tag = "Ok"]
Err(e)      == [NoResult EXCEPT !.tag = "Err", !.error = e]
None        == [NoResult EXCEPT !.tag = "None"]
SomeStats(s)  == [NoResult EXCEPT !.tag = "Some", !.stats = s]
SomeConfig(c) == [NoResult EXCEPT !.tag = "Some", !.config = c]
Unwound     == [NoResult EXCEPT !.tag = "Unwound"]

Terminated(p) == p.exit # NotExited

\* std::process::exit
Exit(p, code) ==
    IF Terminated(p) THEN p ELSE [p EXCEPT !.exit = ExitStatus(code)]

\* panic!: the message goes to stderr (a failure to write it is ignored)
\* and the process ends with status 101
Panic(p, msg) ==
    IF Terminated(p) THEN p
    ELSE [p EXCEPT !.panic = msg,
                   !.exit = PanicExit,
                   !.stderr = IF p.stderrOpen THEN Append(@, PanicLine(msg))
                              ELSE @]

\* println!: panics when the write to stdout fails
Println(p, m) ==
    IF Terminated(p) THEN p
    ELSE IF p.stdoutLeft = 0
    THEN Panic([p EXCEPT !.writeFailed = TRUE], "failed printing to stdout")
    ELSE [p EXCEPT !.stdout = Append(@, m),
                   !.stdoutLeft = IF @ = Unlimited THEN @ ELSE @ - 1]

\* eprintln!: panics when the write to stderr fails
Eprintln(p, m) ==
    IF Terminated(p) THEN p
    ELSE IF ~p.stderrOpen
    THEN Panic(p, "failed printing to stderr")
    ELSE [p EXCEPT !.stderr = Append(@, m)]

\* fn write_str: exit(0) when the write to stdout fails
write_str(p, s) ==
    IF Terminated(p) THEN p
    ELSE IF p.stdoutLeft = 0
    THEN Exit([p EXCEPT !.writeFailed = TRUE], BrokenPipeExitArg)
    ELSE [p EXCEPT !.stdout = Append(@, s),
                   !.stdoutLeft = IF @ = Unlimited THEN @ ELSE @ - 1]

\* RequestBuilder::send: one HTTP request leaves the process
Send(p, method, endpoint) ==
    [p EXCEPT !.requests = Append(@, [method |-> method, endpoint |-> endpoint])]

(* ----------------------------- impl Server --------------------------- *)
\* Each method takes the process and the server's answer to its request and
\* yields the returned value and the process afterwards.  A method that
\* panics yields Unwound and a terminated process.

\* create_namespace without the status test: every answered call is Ok
create_namespace_unchecked(p, res) ==
    LET sent == Send(p, "POST", "create") IN
    IF res.transport = "failed"
    THEN [ret |-> Unwound, p |-> Panic(sent, "unwrap on Err: send")]
    ELSE [ret |-> Ok, p |-> sent]

\* fn create_namespace
create_namespace(p, res) ==
    LET sent == Send(p, "POST", "create") IN
    IF res.transport = "failed"
    THEN [ret |-> Unwound, p |-> Panic(sent, "unwrap on Err: send")]
    ELSE IF ~is_success(res.status)
    THEN LET error == JsonServerError(res.body) IN
         IF error.ok
         THEN [ret |-> Err(error.error), p |-> sent]
         ELSE [ret |-> Unwound, p |-> Panic(sent, "unwrap on Err: decode")]
    ELSE [ret |-> Ok, p |-> sent]

\* fn delete_namespace
delete_namespace(p, res) ==
    LET sent == Send(p, "DELETE", "namespace") IN
    IF res.transport = "failed"
    THEN [ret |-> Unwound, p |-> Panic(sent, "unwrap on Err: send")]
    ELSE IF ~is_success(res.status)
    THEN LET error == JsonServerError(res.body) IN
         IF error.ok
         THEN [ret |-> Err(error.error), p |-> sent]
         ELSE [ret |-> Unwound, p |-> Panic(sent, "unwrap on Err: decode")]
    ELSE [ret |-> Ok, p |-> sent]

\* fn fork_namespace
fork_namespace(p, res) ==
    LET sent == Send(p, "POST", "fork") IN
    IF res.transport = "failed"
    THEN [ret |-> Unwound, p |-> Panic(sent, "unwrap on Err: send")]
    ELSE IF ~is_success(res.status)
    THEN LET error == JsonServerError(res.body) IN
         IF error.ok
         THEN [ret |-> Err(error.error), p |-> sent]
         ELSE [ret |-> Unwound, p |-> Panic(sent, "unwrap on Err: decode")]
    ELSE [ret |-> Ok, p |-> sent]

\* the value a method hands back once the diagnostic println! has run:
\* nothing is returned when that println! panicked
AfterPrint(p, ret) == IF Terminated(p) THEN Unwound ELSE ret

\* namespace_stats that sends the request again after a transport failure
namespace_stats_retry(p, res) ==
    LET sent == Send(p, "GET", "stats") IN
    IF res.transport = "failed"
    THEN [ret |-> None, p |-> Send(sent, "GET", "stats")]
    ELSE IF ~is_success(res.status)
    THEN LET printed == Println(sent, DebugLine("Res", JsonValue(res.body)))
         IN  [ret |-> AfterPrint(printed, None), p |-> printed]
    ELSE LET stats == JsonNamespaceStats(res.body) IN
         IF stats.ok
         THEN [ret |-> SomeStats(stats.stats), p |-> sent]
         ELSE [ret |-> None, p |-> sent]

\* fn namespace_stats
namespace_stats(p, res) ==
    LET sent == Send(p, "GET", "stats") IN
    IF res.transport = "failed"
    THEN [ret |-> None, p |-> sent]
    ELSE IF ~is_success(res.status)
    THEN LET printed == Println(sent, DebugLine("Res", JsonValue(res.body)))
         IN  [ret |-> AfterPrint(printed, None), p |-> printed]
    ELSE LET stats == JsonNamespaceStats(res.body) IN
         IF stats.ok
         THEN [ret |-> SomeStats(stats.stats), p |-> sent]
         ELSE [ret |-> None, p |-> sent]

\* fn get_namespace_config
get_namespace_config(p, res) ==
    LET sent == Send(p, "GET", "config") IN
    IF res.transport = "failed"
    THEN [ret |-> None, p |-> sent]
    ELSE IF ~is_success(res.status)
    THEN LET printed == Println(sent, DebugLine("Res", JsonValue(res.body)))
         IN  [ret |-> AfterPrint(printed, None), p |-> printed]
    ELSE LET config == JsonConfig(res.body) IN
         IF config.ok
         THEN [ret |-> SomeConfig(config.config), p |-> sent]
         ELSE [ret |-> None, p |-> sent]

\* fn set_namespace_config
set_namespace_config(p, res) ==
    LET sent == Send(p, "POST", "config") IN
    IF res.transport = "failed"
    THEN [ret |-> None, p |-> sent]
    ELSE IF ~is_success(res.status)
    THEN LET printed == Println(sent, DebugLine("Res", JsonValue(res.body)))
         IN  [ret |-> AfterPrint(printed, None), p |-> printed]
    ELSE [ret |-> None, p |-> sent]

(* ------------------------------ rendering ---------------------------- *)
\* the enumerate() loop of print_stats; i is the zero-based index of the
\* first entry of qs
RECURSIVE PrintTopQueries(_, _, _)
PrintTopQueries(p, qs, i) ==
    IF qs = <<>> THEN p
    ELSE PrintTopQueries(
             Println(p, TextLine("Query",
                 <<i, Head(qs).rows_read, Head(qs).rows_written,
                   Head(qs).query>>)),
             Tail(qs), i + 1)

\* print_stats with the first two lines in the other order
print_stats_swapped(p, stats, format) ==
    IF format = "Normal"
    THEN LET p1 == Println(p, TextLine("Rows Written",
                                       <<stats.rows_written_count>>))
             p2 == Println(p1, TextLine("Rows Read", <<stats.rows_read_count>>))
             p3 == Println(p2, TextLine("Storage Used (B)",
                                        <<stats.storage_bytes_used>>))
             p4 == Println(p3, TextLine("Write Requests Delegated",
                                        <<stats.write_requests_delegated>>))
             p5 == Println(p4, TextLine("Replication Index",
                                        <<stats.replication_index>>))
         IN  IF stats.top_queries # <<>>
             THEN PrintTopQueries(
                      Println(p5, TextLine("Top Queries", <<>>)),
                      stats.top_queries, 0)
             ELSE p5
    ELSE write_str(p, JsonText("stats", <<TRUE, stats>>))

\* fn print_stats
print_stats(p, stats, format) ==
    IF format = "Normal"
    THEN LET p1 == Println(p, TextLine("Rows Read", <<stats.rows_read_count>>))
             p2 == Println(p1, TextLine("Rows Written",
                                        <<stats.rows_written_count>>))
             p3 == Println(p2, TextLine("Storage Used (B)",
                                        <<stats.storage_bytes_used>>))
             p4 == Println(p3, TextLine("Write Requests Delegated",
                                        <<stats.write_requests_delegated>>))
             p5 == Println(p4, TextLine("Replication Index",
                                        <<stats.replication_index>>))
         IN  IF stats.top_queries # <<>>
             THEN PrintTopQueries(
                      Println(p5, TextLine("Top Queries", <<>>)),
                      stats.top_queries, 0)
             ELSE p5
    ELSE write_str(p, JsonText("stats", <<TRUE, stats>>))

\* print_server_error without the final exit
print_server_error_no_exit(p, err, format) ==
    IF format = "Normal"
    THEN Eprintln(p, TextLine("Error", <<err>>))
    ELSE write_str(p, JsonText("error", <<err>>))

\* fn print_server_error
print_server_error(p, err, format) ==
    LET shown == IF format = "Normal"
                 THEN Eprintln(p, TextLine("Error", <<err>>))
                 ELSE write_str(p, JsonText("error", <<err>>))
    IN  Exit(shown, ErrorExitArg)

\* fn print_success
print_success(p, format) ==
    IF format = "Normal"
    THEN Println(p, TextLine("Success", <<>>))
    ELSE write_str(p, JsonText("success", <<TRUE>>))

\* the top queries are never cleared
ClearTopQueries_never(stats, include_top_queries) == stats

\* Vec::clear on stats.top_queries unless include_top_queries
ClearTopQueries(stats, include_top_queries) ==
    IF ~include_top_queries
    THEN [stats EXCEPT !.top_queries = <<>>]
    ELSE stats

\* the Stats arm with unwrap_or_default in place of expect
StatsArm_default(p, ret, include_top_queries, format) ==
    print_stats(p, ClearTopQueries(IF ret.tag = "Some" THEN ret.stats
                                   ELSE NoStats, include_top_queries),
                format)

\* the Commands::Stats arm of main after namespace_stats returned
StatsArm(p, ret, include_top_queries, format) ==
    IF ret.tag # "Some"
    THEN Panic(p, "Failed to retrive namespace stats")
    ELSE print_stats(p, ClearTopQueries(ret.stats, include_top_queries),
                     format)

\* a lifecycle arm of main after the Server method returned
LifecycleArm(p, ret, format) ==
    IF ret.tag = "Ok"
    THEN print_success(p, format)
    ELSE print_server_error(p, ret.error, format)

\* main returns: the process ends with status 0
ReturnFromMain(p) == Exit(p, 0)

(* ------------------------------- main -------------------------------- *)
StdoutBudgets == (0 .. MaxAccept) \cup {Unlimited}

NewProcess(left, errOpen) ==
    [stdout |-> <<>>, stderr |-> <<>>, stdoutLeft |-> left,
     stderrOpen |-> errOpen, writeFailed |-> FALSE, exit |-> NotExited,
     panic |-> "", requests |-> <<>>]

Init ==
    /\ pc = "start"
    /\ args = NoArgs
    /\ op = "none"
    /\ response = NoResponse
    /\ result = NoResult
    /\ \E left \in StdoutBudgets, errOpen \in BOOLEAN :
           proc = NewProcess(left, errOpen)

\* Args::parse and Server::new
ParseArgs ==
    /\ pc = "start"
    /\ \E a \in Args : args' = a
    /\ pc' = "dispatch"
    /\ UNCHANGED <<op, response, result, proc>>

\* the Server method called by the arm of the parsed command
MethodOf(kind) ==
    CASE kind = "Stats" -> "namespace_stats"
      [] kind = "CreateNamespace" -> "create_namespace"
      [] kind = "DeleteNamespace" -> "delete_namespace"
      [] kind = "Fork" -> "fork_namespace"

Call(method, p, res) ==
    CASE method = "namespace_stats" -> namespace_stats(p, res)
      [] method = "create_namespace" -> create_namespace(p, res)
      [] method = "delete_namespace" -> delete_namespace(p, res)
      [] method = "fork_namespace" -> fork_namespace(p, res)
      [] method = "get_namespace_config" -> get_namespace_config(p, res)
      [] method = "set_namespace_config" -> set_namespace_config(p, res)

\* main calls the Server method of command kind; the server answers res
CallServer(kind) ==
    /\ pc = "dispatch"
    /\ args.command.kind = kind
    /\ \E res \in Responses :
         LET r == Call(MethodOf(kind), proc, res) IN
           /\ response' = res
           /\ result' = r.ret
           /\ proc' = r.p
           /\ pc' = IF Terminated(r.p) THEN "exited" ELSE "returned"
    /\ op' = MethodOf(kind)
    /\ UNCHANGED args

CallNamespaceStats == CallServer("Stats")
CallCreateNamespace == CallServer("CreateNamespace")
CallDeleteNamespace == CallServer("DeleteNamespace")
CallForkNamespace == CallServer("Fork")

\* Commands::Stats arm: expect, clear, print_stats, return from main
RenderStats ==
    /\ pc = "returned"
    /\ args.command.kind = "Stats"
    /\ proc' = ReturnFromMain(StatsArm(proc, result,
                   args.command.include_top_queries, args.format))
    /\ pc' = "exited"
    /\ UNCHANGED <<args, op, response, result>>

\* lifecycle arms: print_success or print_server_error, return from main
RenderLifecycle ==
    /\ pc = "returned"
    /\ args.command.kind \in {"CreateNamespace", "DeleteNamespace", "Fork"}
    /\ proc' = ReturnFromMain(LifecycleArm(proc, result, args.format))
    /\ pc' = "exited"
    /\ UNCHANGED <<args, op, response, result>>

Next ==
    \/ ParseArgs
    \/ CallNamespaceStats
    \/ CallCreateNamespace
    \/ CallDeleteNamespace
    \/ CallForkNamespace
    \/ RenderStats
    \/ RenderLifecycle

Spec == Init /\ [][Next]_vars

(* -------------------- Server methods called alone -------------------- *)
ClientMethods == {"namespace_stats", "get_namespace_config",
                  "set_namespace_config"}

ClientInit ==
    /\ pc = "client"
    /\ args = NoArgs
    /\ op = "none"
    /\ response = NoResponse
    /\ result = NoResult
    /\ \E left \in StdoutBudgets, errOpen \in BOOLEAN :
           proc = NewProcess(left, errOpen)

ClientCall(method) ==
    /\ pc = "client"
    /\ \E res \in Responses :
         LET r == Call(method, proc, res) IN
           /\ response' = res
           /\ result' = r.ret
           /\ proc' = r.p
    /\ op' = method
    /\ pc' = "client_done"
    /\ UNCHANGED args

ClientNamespaceStats == ClientCall("namespace_stats")
ClientGetNamespaceConfig == ClientCall("get_namespace_config")
ClientSetNamespaceConfig == ClientCall("set_namespace_config")

ClientNext ==
    \/ ClientNamespaceStats
    \/ ClientGetNamespaceConfig
    \/ ClientSetNamespaceConfig

ClientSpec == ClientInit /\ [][ClientNext]_vars

(* ============================ properties ============================= *)
Exited == pc = "exited"

Lifecycle ==
    args.command.kind \in {"CreateNamespace", "DeleteNamespace", "Fork"}

StatsCommand == args.command.kind = "Stats"

Non2xx == response.transport = "ok" /\ ~is_success(response.status)

TransportFailed == response.transport = "failed"

\* the body of the answer carries {"error": <text>}
ErrorBody == response.body.kind = "error"

\* the answer is one the command counts as success
CallSucceeded ==
    /\ response.transport = "ok"
    /\ is_success(response.status)
    /\ StatsCommand => response.body.kind = "stats"

\* every message the process emitted, on either stream
Emitted == proc.stdout \o proc.stderr

\* the error message in the rendering of the selected format, carrying the
\* error text of the server's body, is on the stream of that format
ErrorShown ==
    IF args.format = "Normal"
    THEN \E i \in DOMAIN proc.stderr :
            /\ proc.stderr[i].fmt = "text"
            /\ proc.stderr[i].tag = "Error"
            /\ proc.stderr[i].val = <<response.body.error>>
    ELSE \E i \in DOMAIN proc.stdout :
            /\ proc.stdout[i].fmt = "json"
            /\ proc.stdout[i].tag = "error"
            /\ proc.stdout[i].val = <<response.body.error>>

\* the stream the error message of the selected format goes to takes it
ErrorStreamAccepts ==
    IF args.format = "Normal" THEN proc.stderrOpen ELSE ~proc.writeFailed

(* C1, as stated: every non-2xx answer to a lifecycle command, whatever   *)
(* its body and whatever the state of the output stream, ends in a        *)
(* non-zero exit status with the server's error text emitted.             *)
C1_AnyNon2xxFailsWithText ==
    (Exited /\ Lifecycle /\ Non2xx) => (proc.exit # 0 /\ ErrorShown)

(* C1, amended: a non-2xx answer to a lifecycle command whose body        *)
(* deserializes to ServerError ends in a non-zero exit status with the    *)
(* server's error text emitted in the selected format, provided the       *)
(* stream the message goes to accepts the write; a body that does not     *)
(* deserialize ends in a panic (non-zero, no server text); the only       *)
(* non-2xx run that ends with status 0 is the Json one whose write to     *)
(* stdout failed.                                                         *)
C1_Non2xxErrorBodyFailsWithText ==
    (Exited /\ Lifecycle /\ Non2xx) =>
        /\ (ErrorBody /\ ErrorStreamAccepts) =>
               (proc.exit = 255 /\ proc.panic = "" /\ ErrorShown)
        /\ ~ErrorBody => (proc.exit = PanicExit /\ ~ErrorShown)
        /\ proc.exit = 0 =>
               (args.format = "Json" /\ proc.writeFailed /\ ErrorBody)
        /\ proc.exit # NotExited

C1_Witness ==
    /\ Exited /\ Lifecycle /\ Non2xx /\ ErrorBody
    /\ args.format = "Json"
    /\ proc.exit = 255
    /\ ErrorShown

(* C2, as stated: every message the process writes is a JSON rendering    *)
(* when the format is Json and the human-readable rendering when the      *)
(* format is Normal, on every path of every command.                      *)
C2_FormatGovernsEveryMessage ==
    \A i \in DOMAIN Emitted :
        /\ args.format = "Json" => Emitted[i].fmt = "json"
        /\ args.format = "Normal" => Emitted[i].fmt # "json"

(* C3, as stated: whenever a write to the output stream fails the process *)
(* ends silently with exit status 0 and never by panic.                   *)
C3_WriteFailureExitsZero ==
    (Exited /\ proc.writeFailed) =>
        (proc.exit = 0 /\ proc.panic = "" /\ proc.stderr = <<>>)

(* ----------------------------- stats output -------------------------- *)
\* the stats command got a NamespaceStats value from the server
StatsData == StatsCommand /\ CallSucceeded

\* the top queries the stats command is to show: the server's, in the
\* server's order, or none without include_top_queries
ShownQueries ==
    IF args.command.include_top_queries
    THEN response.body.stats.top_queries
    ELSE <<>>

\* the lines of the Normal rendering that show one top query each
QueryLines == SelectSeq(proc.stdout, LAMBDA m : m.tag = "Query")

HasLine(tag) == \E i \in DOMAIN proc.stdout : proc.stdout[i].tag = tag

(* C4: the stats command renders no top query without                     *)
(* include_top_queries (Json: "top_queries" is []; Normal: no header and  *)
(* no entry line) and with it the server's entries, unchanged and in the  *)
(* server's order (up to the point where stdout stopped taking writes).   *)
C4_TopQueriesClearedOrKept ==
    (Exited /\ StatsData) =>
        IF args.format = "Json"
        THEN /\ Len(proc.stdout) <= 1
             /\ \A i \in DOMAIN proc.stdout :
                  /\ proc.stdout[i].tag = "stats"
                  /\ proc.stdout[i].val[2].top_queries = ShownQueries
                  /\ proc.stdout[i].val[2] =
                       [response.body.stats EXCEPT !.top_queries = ShownQueries]
             /\ ~proc.writeFailed => Len(proc.stdout) = 1
        ELSE /\ Len(QueryLines) <= Len(ShownQueries)
             /\ ~proc.writeFailed => Len(QueryLines) = Len(ShownQueries)
             /\ \A i \in DOMAIN QueryLines :
                  QueryLines[i].val =
                      <<i - 1, ShownQueries[i].rows_read,
                        ShownQueries[i].rows_written, ShownQueries[i].query>>
             /\ HasLine("Top Queries") => ShownQueries # <<>>
             /\ (~proc.writeFailed /\ ShownQueries # <<>>)
                    => HasLine("Top Queries")

C4_Witness ==
    /\ Exited /\ StatsData
    /\ ~args.command.include_top_queries
    /\ Len(response.body.stats.top_queries) = MaxQueries
    /\ Len(proc.stdout) >= 1
    /\ ~proc.writeFailed

(* C5: one invocation runs one command and issues exactly one HTTP        *)
(* request before it exits: never a second one, and none is skipped once  *)
(* the command is dispatched.                                             *)
C5_ExactlyOneRequest ==
    /\ Len(proc.requests) <= 1
    /\ pc \in {"start", "dispatch"} => proc.requests = <<>>
    /\ pc \in {"returned", "exited"} =>
         /\ Len(proc.requests) = 1
         /\ op = MethodOf(args.command.kind)
         /\ proc.requests[1].endpoint =
              (CASE args.command.kind = "Stats" -> "stats"
                 [] args.command.kind = "CreateNamespace" -> "create"
                 [] args.command.kind = "DeleteNamespace" -> "namespace"
                 [] args.command.kind = "Fork" -> "fork")

C5_Witness ==
    /\ Exited
    /\ Len(proc.requests) = 1
    /\ TransportFailed

(* C6, as stated: set_namespace_config returns None exactly when the      *)
(* request failed (transport failure or non-2xx status) and a present     *)
(* value when the server answered 2xx.                                    *)
C6_SetConfigAbsentIffFailed ==
    (pc = "client_done" /\ op = "set_namespace_config" /\ ~Terminated(proc))
        => (result.tag = "None" <=> (TransportFailed \/ Non2xx))

\* the success rendering of a lifecycle command or the stats rendering
SuccessShown ==
    \E i \in DOMAIN proc.stdout :
        proc.stdout[i].tag \in {"Success", "success", "stats", "Rows Read"}

(* C7: the process exits with status 0 only if the call succeeded or a    *)
(* write to the output stream failed; every other run exits non-zero, and *)
(* no success rendering is emitted when the call failed.                  *)
C7_ExitZeroOnlyOnSuccessOrBrokenPipe ==
    Exited =>
        /\ proc.exit = 0 => (CallSucceeded \/ proc.writeFailed)
        /\ (~CallSucceeded /\ ~proc.writeFailed) => proc.exit \in {255, PanicExit}
        /\ ~CallSucceeded => ~SuccessShown

C7_Witness ==
    /\ Exited /\ ~CallSucceeded
    /\ proc.exit = 0
    /\ proc.writeFailed

\* some part of the stats rendering, in either format
StatsShown ==
    \E i \in DOMAIN proc.stdout :
        proc.stdout[i].tag \in
            {"stats", "Rows Read", "Rows Written", "Storage Used (B)",
             "Write Requests Delegated", "Replication Index", "Top Queries",
             "Query"}

(* C8: a stats command whose call yields no data (transport failure,      *)
(* non-2xx, or a 2xx body that is no NamespaceStats) aborts by panic with *)
(* a diagnostic and a non-zero exit status, and renders no stats.         *)
C8_StatsNoDataIsFatal ==
    (Exited /\ StatsCommand /\ ~CallSucceeded) =>
        /\ proc.exit = PanicExit
        /\ proc.exit # 0
        /\ proc.panic \in {"Failed to retrive namespace stats",
                           "failed printing to stdout"}
        /\ proc.stderrOpen => proc.stderr = <<PanicLine(proc.panic)>>
        /\ proc.panic = "failed printing to stdout" => proc.writeFailed
        /\ ~StatsShown

C8_Witness ==
    /\ Exited /\ StatsCommand /\ Non2xx
    /\ args.format = "Json"
    /\ proc.panic = "Failed to retrive namespace stats"
    /\ proc.stderr # <<>>

(* C9, as stated: a lifecycle command whose HTTP call fails at the        *)
(* transport level ends like one that got a non-2xx answer with an error  *)
(* body: a ServerError reaches main, print_server_error renders it, and   *)
(* the process exits non-zero without panicking.                          *)
C9_TransportFailureRenderedAsServerError ==
    (Exited /\ Lifecycle /\ TransportFailed) =>
        /\ result.tag = "Err"
        /\ proc.panic = ""
        /\ proc.exit = 255

\* line i of the Normal rendering of stats whose top queries are qs
ExpectedLine(stats, qs, i) ==
    CASE i = 1 -> TextLine("Rows Read", <<stats.rows_read_count>>)
      [] i = 2 -> TextLine("Rows Written", <<stats.rows_written_count>>)
      [] i = 3 -> TextLine("Storage Used (B)", <<stats.storage_bytes_used>>)
      [] i = 4 -> TextLine("Write Requests Delegated",
                           <<stats.write_requests_delegated>>)
      [] i = 5 -> TextLine("Replication Index", <<stats.replication_index>>)
      [] i = 6 -> TextLine("Top Queries", <<>>)
      [] i > 6 -> TextLine("Query", <<i - 7, qs[i - 6].rows_read,
                                      qs[i - 6].rows_written, qs[i - 6].query>>)

ExpectedLength(qs) == IF qs = <<>> THEN 5 ELSE 6 + Len(qs)

(* C10: the Normal rendering of a NamespaceStats value is fixed by the    *)
(* value: the five scalar lines in the order rows read, rows written,     *)
(* storage bytes used, write requests delegated, replication index, then  *)
(* (iff there are top queries) the header and one line per entry indexed  *)
(* 0,1,2,... in sequence order; a run whose stdout stops taking writes    *)
(* emits a proper prefix of exactly those lines.                          *)
C10_NormalStatsLinesFixed ==
    (Exited /\ StatsData /\ args.format = "Normal") =>
        /\ \A i \in DOMAIN proc.stdout :
             proc.stdout[i] = ExpectedLine(response.body.stats, ShownQueries, i)
        /\ Len(proc.stdout) <= ExpectedLength(ShownQueries)
        /\ ~proc.writeFailed <=>
             Len(proc.stdout) = ExpectedLength(ShownQueries)

C10_Witness ==
    /\ Exited /\ StatsData /\ args.format = "Normal"
    /\ args.command.include_top_queries
    /\ Len(response.body.stats.top_queries) = MaxQueries
    /\ Len(proc.stdout) = 6 + MaxQueries
    /\ response.body.stats.rows_read_count # response.body.stats.rows_written_count

====
